---- MODULE Spec2Model ----
(***************************************************************************)
(* Session / token lifecycle and sliding-window rate limiter of the        *)
(* hono-commerce back office API.                                          *)
(*                                                                         *)
(* The persistent store (PostgreSQL table "sessions"), the Redis session   *)
(* cache and the Redis rate-limit sorted sets are the shared state.  Every *)
(* request is a process that walks through its handler; each awaited       *)
(* database or cache call is one step, so that concurrent requests         *)
(* interleave exactly at the handler's suspension points.                  *)
(*                                                                         *)
(* Time is a discrete clock.  One unit is far longer than a request, so    *)
(* the clock advances only between requests, except where skew is set and  *)
(* a request may straddle a tick.  The default lifetimes keep the order of *)
(* the source: access token (15m) < cache TTL (24h) < session (7d); the    *)
(* JWT lifetimes are settings, and some specifications lengthen them.      *)
(***************************************************************************)
EXTENDS Integers, FiniteSets, Sequences, TLC

(***************************************************************************)
(* Bounds of the model.                                                    *)
(***************************************************************************)
\* last instant of the clock, and the requests of a run, when requests are
\* served one after another
MaxTime == 5
MaxRequests == 4
\* the same for runs with concurrent requests
ConcMaxTime == 1
ConcRequests == 4
\* the same for runs where the clock advances during the requests
RaceRequests == 3
\* ... when the session cache may fail
FaultMaxTime == 2
FaultRequests == 3
\* rate limiter: last instant, number of calls, largest maxRequests
RateMaxTime == 2
MaxCalls == 4
MaxLimit == 3
\* RATE_LIMIT.WINDOW_MS (15 minutes in the source), in clock units
WINDOW_MS == 2
\* number of session rows ever inserted (uuid primary keys are never reused)
MaxSessions == 3

\* SESSION.MAX_SESSIONS_PER_USER is 10 in the source; it is scaled to the
\* value the specification's own scenario uses.
MAX_SESSIONS_PER_USER == 2
\* config.jwt.accessExpiry ("15m"), in clock units
ACCESS_EXPIRY == 2
\* REDIS_TTL.SESSION (24 hours), in clock units
REDIS_TTL_SESSION == 3
\* session lifetime and config.jwt.refreshExpiry (7 days), in clock units
SESSION_LIFETIME == 4
\* JWT_ACCESS_EXPIRY and JWT_REFRESH_EXPIRY are settings of the deployment; a
\* deployment with long-lived tokens: the access token outlives the cache
\* copy, the refresh token outlives the session
LONG_ACCESS_EXPIRY == 4
LONG_REFRESH_EXPIRY == 6

Identifiers == {"ip:1.2.3.4", "user:u1"}
Users == {"u1", "u2"}
Procs == {"p1", "p2"}
SessionIds == 1..MaxSessions

\* Number(<uuid string>) is NaN; NaN is kept apart from every count
NaN == -1

VARIABLES
    now,        \* the clock (Date.now())
    users,      \* table users: userId -> role
    sessions,   \* table sessions: id -> row, for the rows that exist
    nextId,     \* the next uuid the table hands out
    cache,      \* Redis keys session:<id> -> cached copy, with their expiry
    issued,     \* token strings handed to clients so far
    deleted,    \* ids whose deleteSession / deleteAllUserSessions has returned
    proc,       \* the request each process is serving and its local variables
    active,     \* the processes that serve requests
    horizon,    \* the last instant the run reaches
    budget,     \* the number of requests the run may still start
    skew,       \* whether the clock advances while session requests are in flight
    accessExpiry,   \* config.jwt.accessExpiry of the deployment
    refreshExpiry,  \* config.jwt.refreshExpiry of the deployment
    faulty,     \* whether the run lets Redis become unreachable
    redisUp,    \* whether the session cache answers
    markers,    \* Redis sorted sets ratelimit:<identifier>: the scores, in order
    keyExpire,  \* the instant Redis drops the sorted set (EXPIRE)
    limit,      \* maxRequests of the limiter under check
    window,     \* windowMs of the limiter under check, in clock units
    rl,         \* the checkRateLimit call each process has in flight
    calls       \* history: the checkRateLimit calls, in the order Redis served them

rlvars == <<markers, keyExpire, limit, window, rl, calls>>
env == <<active, horizon, skew, accessExpiry, refreshExpiry, faulty, redisUp, rlvars>>
sessionvars == <<users, sessions, nextId, cache, issued, deleted, proc, budget>>
vars == <<now, users, sessions, nextId, cache, issued, deleted, proc, active, horizon,
          budget, skew, accessExpiry, refreshExpiry,
          faulty, redisUp, markers, keyExpire, limit, window,
          rl, calls>>

(***************************************************************************)
(* Tokens.  An HS256 JWT is a deterministic function of the secret (one    *)
(* per kind), the payload and iat, which has the granularity of the clock. *)
(***************************************************************************)
NoToken == [kind |-> "none", userId |-> "", sessionId |-> 0, role |-> "", iat |-> 0]

generateAccessToken(u, s, r) ==
    [kind |-> "access", userId |-> u, sessionId |-> s, role |-> r, iat |-> now]

generateRefreshToken(u, s) ==
    [kind |-> "refresh", userId |-> u, sessionId |-> s, role |-> "", iat |-> now]

\* the provider's tokens of one code exchange
GoogleAccessToken(u) ==
    [kind |-> "google_access", userId |-> u, sessionId |-> 0, role |-> "", iat |-> now]

GoogleRefreshToken(u) ==
    [kind |-> "google_refresh", userId |-> u, sessionId |-> 0, role |-> "", iat |-> now]

\* a verification that accepts a signature by either secret
verifyAccessToken_AnySecret(tok) ==
    tok.kind \in {"access", "refresh"} /\ now < tok.iat + accessExpiry

\* jwtVerify(token, accessSecret): signature by the access secret, exp in the future
verifyAccessToken(tok) ==
    tok.kind = "access" /\ now < tok.iat + accessExpiry

\* jwtVerify(token, refreshSecret)
verifyRefreshToken(tok) ==
    tok.kind = "refresh" /\ now < tok.iat + refreshExpiry

\* what JWTService.verifyAccessToken returns: the payload, or nothing when it
\* throws AuthenticationError
accessPayload(tok) ==
    IF verifyAccessToken(tok)
    THEN {[userId |-> tok.userId, sessionId |-> tok.sessionId, role |-> tok.role]}
    ELSE {}

(***************************************************************************)
(* Process-local state.                                                    *)
(***************************************************************************)
Idle ==
    [op |-> "idle", pc |-> "idle", tok |-> NoToken, uid |-> "", sid |-> 0,
     target |-> 0, sess |-> {}, todo |-> {}, ret |-> "", newA |-> NoToken,
     newR |-> NoToken, exp |-> 0, out |-> "", before |-> {}, liveBefore |-> 0,
     conc |-> FALSE, msg |-> "", seen |-> {}, pre |-> <<>>, role |-> "",
     count |-> 0, removed |-> 0, swept |-> FALSE, logged |-> <<>>,
     revFailed |-> FALSE, stages |-> <<>>, cacheFailed |-> FALSE, userRole |-> "",
     headers |-> {}, hasPermission |-> FALSE]

Set(p, r) == proc' = [proc EXCEPT ![p] = r]

Finish(p, result) == [Idle EXCEPT !.op = proc[p].op, !.pc = "done", !.tok = proc[p].tok,
                                  !.sid = proc[p].sid, !.out = result,
                                  !.conc = proc[p].conc, !.seen = proc[p].seen,
                                  !.pre = proc[p].pre,
                                  !.revFailed = proc[p].revFailed,
                                  !.stages = proc[p].stages,
                                  !.cacheFailed = proc[p].cacheFailed,
                                  !.logged = proc[p].logged]

\* the request ends with AuthenticationError(message)
Throw(p, message) == [Finish(p, "AuthenticationError") EXCEPT !.msg = message]

\* history: the tables when the request arrived
Snapshot == [sessions |-> sessions, cache |-> cache]

Quiescent == \A p \in Procs : proc[p].pc = "idle"

\* the logins that have not inserted their row yet
Inserting ==
    {p \in Procs : proc[p].op = "login" /\ proc[p].sid = 0 /\ proc[p].pc # "done"}

(***************************************************************************)
(* Redis session cache.                                                    *)
(***************************************************************************)
\* redis.get(session:<id>): the copy, unless the key is absent or has expired;
\* an error of the cache is caught and null returned
getCachedSession(s) ==
    IF redisUp /\ s \in DOMAIN cache /\ now < cache[s].ttlAt
    THEN {[id |-> s, userId |-> cache[s].userId, accessToken |-> cache[s].accessToken,
           refreshToken |-> cache[s].refreshToken, expiresAt |-> cache[s].expiresAt]}
    ELSE {}

\* redis.setex(session:<id>, REDIS_TTL.SESSION, JSON.stringify(data)); an
\* error of the cache is logged and not thrown
cacheSession(s, u, a, r, e) ==
    IF ~redisUp THEN cache
    ELSE [x \in DOMAIN cache \cup {s} |->
            IF x = s THEN [userId |-> u, accessToken |-> a, refreshToken |-> r,
                           expiresAt |-> e, ttlAt |-> now + REDIS_TTL_SESSION]
            ELSE cache[x]]

\* redis.del(session:<id>); an error of the cache is logged and not thrown
deleteCachedSession(s) ==
    IF ~redisUp THEN cache ELSE [x \in DOMAIN cache \ {s} |-> cache[x]]

\* history: a cache command of the request has failed
Failed(p) == proc[p].cacheFailed \/ ~redisUp

(***************************************************************************)
(* Table sessions.                                                         *)
(***************************************************************************)
\* rows of user u with expiresAt > now
LiveSessions(u) ==
    {s \in DOMAIN sessions : sessions[s].userId = u /\ sessions[s].expiresAt > now}

\* createdAt has microsecond resolution: rows inserted one after another are
\* ordered by (createdAt, insertion order)
Older(a, b) ==
    \/ sessions[a].createdAt < sessions[b].createdAt
    \/ sessions[a].createdAt = sessions[b].createdAt /\ a < b

\* Number(v) of the value selected as "count": the id column, a uuid
ToNumber(v) == IF v \in SessionIds THEN NaN ELSE v

\* a >= b of JavaScript numbers
GreaterEq(a, b) == a # NaN /\ b # NaN /\ a >= b

\* Number(userSessionCount[0]?.count || 0): the select has no aggregate, it
\* returns one row per live session, each holding the session id as "count"
SessionCount(u) ==
    IF LiveSessions(u) = {} THEN 0
    ELSE ToNumber(CHOOSE s \in LiveSessions(u) : TRUE)

RateIdle == [pc |-> "idle", id |-> "", at |-> 0, outcome |-> "", count |-> 0, idx |-> 0]

\* the users table once u1 and then u2 have registered
Registered == [u \in Users |-> IF u = "u1" THEN "owner" ELSE "staff"]

\* no session, an empty Redis, no request
StartWith(table) ==
    /\ now = 0
    /\ redisUp = TRUE
    /\ users = table
    /\ sessions = <<>>
    /\ nextId = 1
    /\ cache = <<>>
    /\ issued = {}
    /\ deleted = {}
    /\ proc = [p \in Procs |-> Idle]
    /\ markers = [i \in Identifiers |-> <<>>]
    /\ keyExpire = [i \in Identifiers |-> 0]
    /\ rl = [p \in Procs |-> RateIdle]
    /\ calls = <<>>

Start == StartWith(Registered)

Init ==
    /\ Start
    /\ active = Procs
    /\ horizon = ConcMaxTime
    /\ budget = ConcRequests
    /\ skew = FALSE
    /\ faulty = FALSE
    /\ accessExpiry = ACCESS_EXPIRY
    /\ refreshExpiry = SESSION_LIFETIME
    /\ limit = 1
    /\ window = 1

(***************************************************************************)
(* The clock.  Redis drops the keys whose TTL has run out.                 *)
(***************************************************************************)
Tick ==
    /\ now < horizon
    /\ Quiescent \/ skew
    /\ now' = now + 1
    /\ cache' = [s \in {x \in DOMAIN cache : now + 1 < cache[x].ttlAt} |-> cache[s]]
    /\ markers' = [i \in Identifiers |-> IF now + 1 < keyExpire[i] THEN markers[i] ELSE <<>>]
    /\ UNCHANGED <<users, sessions, nextId, issued, deleted, proc, budget,
                   active, horizon, skew, accessExpiry, refreshExpiry,
                   faulty, redisUp, keyExpire, limit,
                   window, rl, calls>>

\* a finished request leaves the process
Return(p) ==
    /\ proc[p].pc = "done"
    /\ Set(p, Idle)
    /\ UNCHANGED <<now, users, sessions, nextId, cache, issued, deleted, env, budget>>

(***************************************************************************)
(* SessionService.getSession, called with proc[p].sid; the caller resumes  *)
(* at proc[p].ret with the result in proc[p].sess.                         *)
(***************************************************************************)
GetSessionCache(p) ==
    /\ proc[p].pc = "gs_cache"
    /\ LET cached == getCachedSession(proc[p].sid) IN
       IF cached # {}
       THEN Set(p, [proc[p] EXCEPT !.sess = cached, !.pc = proc[p].ret])
       ELSE Set(p, [proc[p] EXCEPT !.pc = "gs_db", !.cacheFailed = Failed(p)])
    /\ UNCHANGED <<now, users, sessions, nextId, cache, issued, deleted, env, budget>>

GetSessionDb(p) ==
    /\ proc[p].pc = "gs_db"
    /\ LET s == proc[p].sid IN
       IF s \notin DOMAIN sessions
       THEN Set(p, [proc[p] EXCEPT !.sess = {}, !.pc = proc[p].ret])
       ELSE Set(p, [proc[p] EXCEPT
                !.sess = {[id |-> s, userId |-> sessions[s].userId,
                           accessToken |-> sessions[s].accessToken,
                           refreshToken |-> sessions[s].refreshToken,
                           expiresAt |-> sessions[s].expiresAt]},
                !.pc = "gs_fill"])
    /\ UNCHANGED <<now, users, sessions, nextId, cache, issued, deleted, env, budget>>

GetSessionFill(p) ==
    /\ proc[p].pc = "gs_fill"
    /\ \E row \in proc[p].sess :
          cache' = cacheSession(row.id, row.userId, row.accessToken,
                                row.refreshToken, row.expiresAt)
    /\ Set(p, [proc[p] EXCEPT !.pc = proc[p].ret, !.cacheFailed = Failed(p)])
    /\ UNCHANGED <<now, users, sessions, nextId, issued, deleted, env, budget>>

(***************************************************************************)
(* SessionService.deleteSession, called with proc[p].target.               *)
(***************************************************************************)
DeleteSessionDb(p) ==
    /\ proc[p].pc = "ds_db"
    /\ sessions' = [s \in DOMAIN sessions \ {proc[p].target} |-> sessions[s]]
    /\ Set(p, [proc[p] EXCEPT !.pc = "ds_cache"])
    /\ UNCHANGED <<now, users, nextId, cache, issued, deleted, env, budget>>

DeleteSessionCache(p) ==
    /\ proc[p].pc = "ds_cache"
    /\ cache' = deleteCachedSession(proc[p].target)
    /\ deleted' = deleted \cup {proc[p].target}
    /\ IF proc[p].ret \in {"auth_expired", "rf_expired"}
       THEN \* the caller throws AuthenticationError('Session expired')
            Set(p, [Throw(p, "Session expired") EXCEPT !.cacheFailed = Failed(p)])
       ELSE Set(p, [proc[p] EXCEPT !.pc = proc[p].ret, !.cacheFailed = Failed(p)])
    /\ UNCHANGED <<now, users, sessions, nextId, issued, env, budget>>

(***************************************************************************)
(* SessionService.updateSessionTokens(sid, newA, newR, exp).               *)
(***************************************************************************)
\* an update that also restarts the row's createdAt
UpdateSessionTokensDb_Recreate(p) ==
    /\ proc[p].pc = "ust_db"
    /\ LET s == proc[p].sid IN
       sessions' = IF s \in DOMAIN sessions
                   THEN [sessions EXCEPT ![s].accessToken = proc[p].newA,
                                         ![s].refreshToken = proc[p].newR,
                                         ![s].expiresAt = proc[p].exp,
                                         ![s].createdAt = now,
                                         ![s].updatedAt = now]
                   ELSE sessions
    /\ Set(p, [proc[p] EXCEPT !.pc = "gs_cache", !.ret = "ust_cache"])
    /\ UNCHANGED <<now, users, nextId, cache, issued, deleted, env, budget>>

\* an update that leaves the refresh token column alone
UpdateSessionTokensDb_AccessOnly(p) ==
    /\ proc[p].pc = "ust_db"
    /\ LET s == proc[p].sid IN
       sessions' = IF s \in DOMAIN sessions
                   THEN [sessions EXCEPT ![s].accessToken = proc[p].newA,
                                         ![s].expiresAt = proc[p].exp,
                                         ![s].updatedAt = now]
                   ELSE sessions
    /\ Set(p, [proc[p] EXCEPT !.pc = "gs_cache", !.ret = "ust_cache"])
    /\ UNCHANGED <<now, users, nextId, cache, issued, deleted, env, budget>>

UpdateSessionTokensDb(p) ==
    /\ proc[p].pc = "ust_db"
    /\ LET s == proc[p].sid IN
       sessions' = IF s \in DOMAIN sessions
                   THEN [sessions EXCEPT ![s].accessToken = proc[p].newA,
                                         ![s].refreshToken = proc[p].newR,
                                         ![s].expiresAt = proc[p].exp,
                                         ![s].updatedAt = now]
                   ELSE sessions
    /\ Set(p, [proc[p] EXCEPT !.pc = "gs_cache", !.ret = "ust_cache"])
    /\ UNCHANGED <<now, users, nextId, cache, issued, deleted, env, budget>>

\* the cache copy is rewritten when getSession found the session; then the
\* caller (handleOAuthCallback or refreshToken) returns the new pair
UpdateSessionTokensCache(p) ==
    /\ proc[p].pc = "ust_cache"
    /\ IF proc[p].sess # {}
       THEN \E row \in proc[p].sess :
               cache' = cacheSession(proc[p].sid, row.userId, proc[p].newA,
                                     proc[p].newR, proc[p].exp)
       ELSE cache' = cache
    /\ issued' = issued \cup {proc[p].newA, proc[p].newR}
    /\ Set(p, [Finish(p, "ok") EXCEPT !.newA = proc[p].newA, !.newR = proc[p].newR,
                                      !.cacheFailed = Failed(p)])
    /\ UNCHANGED <<now, users, sessions, nextId, deleted, env, budget>>

(***************************************************************************)
(* AuthService.handleOAuthCallback for the local user u, from the creation *)
(* of the session on: SessionService.createSession, the two JWTs, and      *)
(* updateSessionTokens.                                                    *)
(***************************************************************************)
\* the entry logActivity(LOGIN, entityId: user.id) writes (lines 97-105 for a
\* new user, 122-130 for a known one)
LoginEntry(u) == [action |-> "login", entityId |-> u]

\* the identity's row is looked up by googleId (lines 53-58); for a known
\* user the login activity is logged next (lines 122-130)
StartLogin(p, u) ==
    /\ p \in active
    /\ proc[p].pc = "idle"
    /\ budget > 0
    /\ budget' = budget - 1
    /\ nextId + Cardinality(Inserting) <= MaxSessions
    /\ IF u \in DOMAIN users
       THEN Set(p, [Idle EXCEPT !.op = "login", !.pc = "cs_count", !.uid = u,
                                !.newA = GoogleAccessToken(u),
                                !.newR = GoogleRefreshToken(u),
                                !.exp = now + SESSION_LIFETIME,
                                !.logged = <<LoginEntry(u)>>])
       ELSE Set(p, [Idle EXCEPT !.op = "login", !.pc = "reg_first", !.uid = u])
    /\ UNCHANGED <<now, users, sessions, nextId, cache, issued, deleted, env>>

\* no row for the identity: "first user becomes owner, rest are staff"
\* (lines 64-66), a select outside the transaction
RegisterRole(p) ==
    /\ proc[p].pc = "reg_first"
    /\ Set(p, [proc[p] EXCEPT !.role = IF DOMAIN users = {} THEN "owner" ELSE "staff",
                              !.pc = "reg_insert"])
    /\ UNCHANGED <<now, users, sessions, nextId, cache, issued, deleted, env, budget>>

\* the transaction that inserts the user (lines 69-95); googleId is unique,
\* a second insert for the same identity fails and the callback throws
RegisterInsert(p) ==
    /\ proc[p].pc = "reg_insert"
    /\ LET u == proc[p].uid IN
       IF u \in DOMAIN users
       THEN /\ Set(p, Finish(p, "Error"))
            /\ UNCHANGED users
       ELSE /\ users' = [x \in DOMAIN users \cup {u} |->
                            IF x = u THEN proc[p].role ELSE users[x]]
            /\ Set(p, [proc[p] EXCEPT !.pc = "cs_count",
                                      !.newA = GoogleAccessToken(u),
                                      !.newR = GoogleRefreshToken(u),
                                      !.exp = now + SESSION_LIFETIME,
                                      !.logged = <<LoginEntry(u)>>])
    /\ UNCHANGED <<now, sessions, nextId, cache, issued, deleted, env, budget>>

\* the session-limit check: the count query and, for a count at the limit,
\* the query for the user's oldest row and the call of deleteSession
CreateSessionCheckLimit(p) ==
    /\ proc[p].pc \in {"cs_count", "cs_oldest"}
    /\ LET u == proc[p].uid
           mine == {s \in DOMAIN sessions : sessions[s].userId = u} IN
       IF proc[p].pc = "cs_count"
       THEN Set(p, [proc[p] EXCEPT
                !.pc = IF GreaterEq(SessionCount(u), MAX_SESSIONS_PER_USER)
                       THEN "cs_oldest" ELSE "cs_insert",
                \* history: the user's rows when createSession was called
                !.before = mine,
                !.liveBefore = Cardinality(LiveSessions(u))])
       ELSE IF mine # {}
            THEN Set(p, [proc[p] EXCEPT
                     !.target = CHOOSE s \in mine : \A o \in mine \ {s} : Older(s, o),
                     !.pc = "ds_db", !.ret = "cs_insert"])
            ELSE Set(p, [proc[p] EXCEPT !.pc = "cs_insert"])
    /\ UNCHANGED <<now, users, sessions, nextId, cache, issued, deleted, env, budget>>

CreateSessionInsert(p) ==
    /\ proc[p].pc = "cs_insert"
    /\ nextId <= MaxSessions
    /\ sessions' = [s \in DOMAIN sessions \cup {nextId} |->
                      IF s = nextId
                      THEN [userId |-> proc[p].uid, accessToken |-> proc[p].newA,
                            refreshToken |-> proc[p].newR, expiresAt |-> proc[p].exp,
                            createdAt |-> now, updatedAt |-> now]
                      ELSE sessions[s]]
    /\ nextId' = nextId + 1
    /\ Set(p, [proc[p] EXCEPT !.sid = nextId, !.pc = "cs_cache"])
    /\ UNCHANGED <<now, users, cache, issued, deleted, env, budget>>

\* the insert fails (the database is unreachable, or no row is returned):
\* createSession logs and rethrows, and so does handleOAuthCallback
CreateSessionInsertFails(p) ==
    /\ proc[p].pc = "cs_insert"
    /\ Set(p, Finish(p, "Error"))
    /\ UNCHANGED <<now, users, sessions, nextId, cache, issued, deleted, env, budget>>

\* a createSession that lets the error of the cache write out
CreateSessionCache_Rethrow(p) ==
    /\ proc[p].pc = "cs_cache"
    /\ cache' = cache
    /\ IF redisUp
       THEN Set(p, [proc[p] EXCEPT
               !.newA = generateAccessToken(proc[p].uid, proc[p].sid, users[proc[p].uid]),
               !.newR = generateRefreshToken(proc[p].uid, proc[p].sid),
               !.pc = "ust_db"])
       ELSE Set(p, [Finish(p, "Error") EXCEPT !.cacheFailed = TRUE])
    /\ UNCHANGED <<now, users, sessions, nextId, issued, deleted, env, budget>>

\* the cache copy of the new session; createSession returns, the JWTs are
\* signed for the session id
CreateSessionCache(p) ==
    /\ proc[p].pc = "cs_cache"
    /\ cache' = cacheSession(proc[p].sid, proc[p].uid, proc[p].newA, proc[p].newR,
                             proc[p].exp)
    /\ Set(p, [proc[p] EXCEPT
            !.newA = generateAccessToken(proc[p].uid, proc[p].sid, users[proc[p].uid]),
            !.newR = generateRefreshToken(proc[p].uid, proc[p].sid),
            !.pc = "ust_db", !.cacheFailed = Failed(p)])
    /\ UNCHANGED <<now, users, sessions, nextId, issued, deleted, env, budget>>

(***************************************************************************)
(* The authenticate middleware in front of a route: GET /auth/me and the   *)
(* like ("me"), POST /auth/logout ("logout"), POST /auth/logout-all        *)
(* ("logoutAll").  The client presents a token string it was given.        *)
(***************************************************************************)
Routes == {"me", "logout", "logoutAll"}

StartRequest(p, route, tok) ==
    /\ p \in active
    /\ proc[p].pc = "idle"
    /\ budget > 0
    /\ budget' = budget - 1
    /\ IF verifyAccessToken(tok)
       THEN Set(p, [Idle EXCEPT !.op = route, !.pc = "gs_cache", !.tok = tok,
                                !.sid = tok.sessionId, !.ret = "auth_check"])
       ELSE Set(p, [Idle EXCEPT !.op = route, !.pc = "done", !.tok = tok,
                                !.out = "AuthenticationError"])
    /\ UNCHANGED <<now, users, sessions, nextId, cache, issued, deleted, env>>

\* after getSession: session found, not expired, token equal to the session's
AuthenticateCheck(p) ==
    /\ proc[p].pc = "auth_check"
    /\ IF proc[p].sess = {}
       THEN Set(p, Finish(p, "AuthenticationError"))
       ELSE \E session \in proc[p].sess :
            IF session.expiresAt < now
            THEN Set(p, [proc[p] EXCEPT !.target = session.id, !.pc = "ds_db",
                                        !.ret = "auth_expired"])
            ELSE IF session.accessToken # proc[p].tok
            THEN Set(p, Finish(p, "AuthenticationError"))
            ELSE \* c.set('userId' | 'sessionId' | 'userRole'), then next()
                 CASE proc[p].op = "me" ->
                        Set(p, [Finish(p, "authenticated") EXCEPT
                                   !.uid = proc[p].tok.userId])
                   [] proc[p].op = "logout" ->
                        Set(p, [proc[p] EXCEPT !.uid = proc[p].tok.userId,
                                               !.sess = {}, !.pc = "lo_find"])
                   [] proc[p].op = "logoutAll" ->
                        Set(p, [proc[p] EXCEPT !.uid = proc[p].tok.userId,
                                               !.sess = {}, !.pc = "la_list"])
    /\ UNCHANGED <<now, users, sessions, nextId, cache, issued, deleted, env, budget>>

(***************************************************************************)
(* The optionalAuth middleware.                                            *)
(***************************************************************************)
StartOptional(p, tok) ==
    /\ p \in active
    /\ proc[p].pc = "idle"
    /\ budget > 0
    /\ budget' = budget - 1
    /\ IF verifyAccessToken(tok)
       THEN Set(p, [Idle EXCEPT !.op = "optional", !.pc = "gs_cache", !.tok = tok,
                                !.sid = tok.sessionId, !.ret = "opt_check"])
       ELSE Set(p, [Idle EXCEPT !.op = "optional", !.pc = "done", !.tok = tok,
                                !.out = "anonymous"])
    /\ UNCHANGED <<now, users, sessions, nextId, cache, issued, deleted, env>>

OptionalAuthCheck(p) ==
    /\ proc[p].pc = "opt_check"
    /\ IF \E session \in proc[p].sess : session.expiresAt >= now
       THEN Set(p, [Finish(p, "authenticated") EXCEPT !.uid = proc[p].tok.userId])
       ELSE Set(p, Finish(p, "anonymous"))
    /\ UNCHANGED <<now, users, sessions, nextId, cache, issued, deleted, env, budget>>

(***************************************************************************)
(* AuthService.refreshToken.                                               *)
(***************************************************************************)
\* history: another refreshToken call for session s is in flight
Refreshing(p, s) ==
    \E q \in Procs \ {p} : /\ proc[q].op = "refresh" /\ proc[q].sid = s
                            /\ proc[q].pc \notin {"idle", "done"}

StartRefresh(p, tok) ==
    /\ p \in active
    /\ proc[p].pc = "idle"
    /\ budget > 0
    /\ budget' = budget - 1
    /\ IF verifyRefreshToken(tok)
       THEN Set(p, [Idle EXCEPT !.op = "refresh", !.pc = "gs_cache", !.tok = tok,
                                !.sid = tok.sessionId, !.ret = "rf_check",
                                !.conc = Refreshing(p, tok.sessionId),
                                !.pre = Snapshot])
       ELSE Set(p, [Idle EXCEPT !.op = "refresh", !.pc = "done", !.tok = tok,
                                !.out = "AuthenticationError",
                                !.msg = "Invalid refresh token"])
    /\ UNCHANGED <<now, users, sessions, nextId, cache, issued, deleted, env>>

\* a check that also refuses a refresh token other than the stored one
RefreshCheck_CompareStored(p) ==
    /\ proc[p].pc = "rf_check"
    /\ IF proc[p].sess = {}
       THEN Set(p, Throw(p, "Session not found"))
       ELSE \E session \in proc[p].sess :
            IF session.expiresAt < now
            THEN Set(p, [proc[p] EXCEPT !.target = session.id, !.pc = "ds_db",
                                        !.ret = "rf_expired",
                                        !.seen = proc[p].sess])
            ELSE IF session.refreshToken # proc[p].tok
            THEN Set(p, [Throw(p, "Invalid token") EXCEPT !.seen = proc[p].sess])
            ELSE Set(p, [proc[p] EXCEPT !.uid = session.userId, !.pc = "rf_user",
                                        !.seen = proc[p].sess])
    /\ UNCHANGED <<now, users, sessions, nextId, cache, issued, deleted, env, budget>>

\* a check that reports the expired session and leaves it in place
RefreshCheck_KeepExpired(p) ==
    /\ proc[p].pc = "rf_check"
    /\ IF proc[p].sess = {}
       THEN Set(p, Throw(p, "Session not found"))
       ELSE \E session \in proc[p].sess :
            IF session.expiresAt < now
            THEN Set(p, [Throw(p, "Session expired") EXCEPT !.seen = proc[p].sess])
            ELSE Set(p, [proc[p] EXCEPT !.uid = session.userId, !.pc = "rf_user",
                                        !.seen = proc[p].sess])
    /\ UNCHANGED <<now, users, sessions, nextId, cache, issued, deleted, env, budget>>

RefreshCheck(p) ==
    /\ proc[p].pc = "rf_check"
    /\ IF proc[p].sess = {}
       THEN Set(p, Throw(p, "Session not found"))
       ELSE \E session \in proc[p].sess :
            IF session.expiresAt < now
            THEN Set(p, [proc[p] EXCEPT !.target = session.id, !.pc = "ds_db",
                                        !.ret = "rf_expired",
                                        !.seen = proc[p].sess])
            ELSE Set(p, [proc[p] EXCEPT !.uid = session.userId, !.pc = "rf_user",
                                        !.seen = proc[p].sess])
    /\ UNCHANGED <<now, users, sessions, nextId, cache, issued, deleted, env, budget>>

\* the user row is read, the new pair is signed with the user's current role
RefreshUser(p) ==
    /\ proc[p].pc = "rf_user"
    /\ LET u == proc[p].uid IN
       IF u \notin DOMAIN users
       THEN Set(p, Throw(p, "User not found"))
       ELSE Set(p, [proc[p] EXCEPT
                !.newA = generateAccessToken(u, proc[p].sid, users[u]),
                !.newR = generateRefreshToken(u, proc[p].sid),
                !.exp = now + SESSION_LIFETIME,
                !.sess = {},
                !.pc = "ust_db"])
    /\ UNCHANGED <<now, users, sessions, nextId, cache, issued, deleted, env, budget>>

(***************************************************************************)
(* AuthService.logout(accessToken), behind authenticate.                   *)
(***************************************************************************)
\* SessionService.getSessionByAccessToken: the row holding this token string
getSessionByAccessToken(tok) ==
    {s \in DOMAIN sessions : sessions[s].accessToken = tok}

\* ... and the role it returns with the row: user?.role || 'staff'
roleByAccessToken(s) ==
    IF sessions[s].userId \in DOMAIN users THEN users[sessions[s].userId] ELSE "staff"

\* a logout that falls back on the session id of the token's payload
LogoutFind_ByPayload(p) ==
    /\ proc[p].pc = "lo_find"
    /\ LET found == getSessionByAccessToken(proc[p].tok) IN
       IF found = {}
       THEN Set(p, [proc[p] EXCEPT !.sid = proc[p].tok.sessionId,
                                   !.pc = "gs_cache", !.ret = "lo_revoke"])
       ELSE \E s \in found :
               Set(p, [proc[p] EXCEPT !.sid = s, !.uid = sessions[s].userId,
                                      !.pc = "gs_cache", !.ret = "lo_revoke"])
    /\ UNCHANGED <<now, users, sessions, nextId, cache, issued, deleted, env, budget>>

\* if (!session) throw new AuthenticationError('Session not found')
LogoutFind(p) ==
    /\ proc[p].pc = "lo_find"
    /\ LET found == getSessionByAccessToken(proc[p].tok) IN
       IF found = {}
       THEN Set(p, Throw(p, "Session not found"))
       ELSE \E s \in found :
               Set(p, [proc[p] EXCEPT !.sid = s, !.uid = sessions[s].userId,
                                      !.pc = "gs_cache", !.ret = "lo_revoke"])
    /\ UNCHANGED <<now, users, sessions, nextId, cache, issued, deleted, env, budget>>

\* a revokeToken that lets the provider's error out
revokeToken_Rethrow(failed) == IF failed THEN "throws" ELSE "returns"

\* GoogleOAuthService.revokeToken: the provider's call may fail; the error
\* is logged and not thrown
revokeToken(failed) == "returns"

\* if (fullSession) googleOAuthService.revokeToken(fullSession.accessToken);
\* an error reaching logout's catch block is rethrown
LogoutRevoke(p) ==
    /\ proc[p].pc = "lo_revoke"
    /\ \E failed \in IF proc[p].sess = {} THEN {FALSE} ELSE BOOLEAN :
          IF proc[p].sess # {} /\ revokeToken(failed) = "throws"
          THEN Set(p, [Finish(p, "Error") EXCEPT !.revFailed = TRUE])
          ELSE Set(p, [proc[p] EXCEPT !.sess = {}, !.target = proc[p].sid,
                                      !.pc = "ds_db", !.ret = "lo_done",
                                      \* history: the revocation failed
                                      !.revFailed = failed])
    /\ UNCHANGED <<now, users, sessions, nextId, cache, issued, deleted, env, budget>>

\* activityLogService.logActivity(LOGOUT, entityId: session.id)
LogoutDone(p) ==
    /\ proc[p].pc = "lo_done"
    /\ Set(p, [Finish(p, "ok") EXCEPT
            !.logged = Append(proc[p].logged,
                              [action |-> "logout", entityId |-> proc[p].sid])])
    /\ UNCHANGED <<now, users, sessions, nextId, cache, issued, deleted, env, budget>>

(***************************************************************************)
(* AuthService.logoutAll(userId), behind authenticate, and                 *)
(* SessionService.deleteAllUserSessions.                                   *)
(***************************************************************************)
\* SessionService.getUserSessions: the user's rows that have not expired
getUserSessions(u) == LiveSessions(u)

LogoutAllList(p) ==
    /\ proc[p].pc = "la_list"
    /\ LET list == getUserSessions(proc[p].uid) IN
       IF list = {}
       THEN Set(p, [proc[p] EXCEPT !.pc = "da_select"])
       ELSE Set(p, [proc[p] EXCEPT !.todo = list, !.pc = "la_next"])
    /\ UNCHANGED <<now, users, sessions, nextId, cache, issued, deleted, env, budget>>

\* one task of Promise.allSettled: getSession, then the revocation.  The
\* tasks work on distinct cache keys, so their order does not matter; a task
\* that throws is settled as rejected and the others go on.
LogoutAllNext(p) ==
    /\ proc[p].pc \in {"la_next", "la_revoke"}
    /\ \E failed \in IF proc[p].pc = "la_revoke" /\ proc[p].sess # {}
                     THEN BOOLEAN ELSE {FALSE} :
       LET thrown == failed /\ revokeToken(failed) = "throws"
           \* history: a revocation failed
           f == proc[p].revFailed \/ failed \/ thrown IN
       IF proc[p].todo = {}
       THEN Set(p, [proc[p] EXCEPT !.sess = {}, !.pc = "da_select", !.revFailed = f])
       ELSE LET s == CHOOSE x \in proc[p].todo : \A y \in proc[p].todo : x <= y IN
            Set(p, [proc[p] EXCEPT !.todo = proc[p].todo \ {s}, !.sid = s,
                                   !.sess = {}, !.pc = "gs_cache",
                                   !.ret = "la_revoke", !.revFailed = f])
    /\ UNCHANGED <<now, users, sessions, nextId, cache, issued, deleted, env, budget>>

DeleteAllSelect(p) ==
    /\ proc[p].pc = "da_select"
    /\ LET userSessions == {s \in DOMAIN sessions : sessions[s].userId = proc[p].uid} IN
       Set(p, [proc[p] EXCEPT !.todo = userSessions,
                              !.count = Cardinality(userSessions),
                              !.pc = "da_db"])
    /\ UNCHANGED <<now, users, sessions, nextId, cache, issued, deleted, env, budget>>

DeleteAllDb(p) ==
    /\ proc[p].pc = "da_db"
    /\ sessions' = [s \in {x \in DOMAIN sessions : sessions[x].userId # proc[p].uid}
                      |-> sessions[s]]
    \* history: the number of rows the statement removed
    /\ Set(p, [proc[p] EXCEPT
            !.removed = Cardinality({x \in DOMAIN sessions :
                                        sessions[x].userId = proc[p].uid}),
            !.pc = "da_cache"])
    /\ UNCHANGED <<now, users, nextId, cache, issued, deleted, env, budget>>

\* the loop over the ids read first; the call returns their number
DeleteAllCache(p) ==
    /\ proc[p].pc = "da_cache"
    /\ IF proc[p].todo = {}
       THEN /\ Set(p, [proc[p] EXCEPT !.pc = "la_log"])
            /\ UNCHANGED <<cache, deleted>>
       ELSE LET s == CHOOSE x \in proc[p].todo : \A y \in proc[p].todo : x <= y IN
            /\ cache' = deleteCachedSession(s)
            /\ deleted' = deleted \cup {s}
            /\ Set(p, [proc[p] EXCEPT !.todo = proc[p].todo \ {s},
                                      !.cacheFailed = Failed(p)])
    /\ UNCHANGED <<now, users, sessions, nextId, issued, env, budget>>

\* activityLogService.logActivity(LOGOUT_ALL, changes.after.sessionsDeleted),
\* then logoutAll returns { sessionsDeleted: deletedCount }
LogoutAllLog(p) ==
    /\ proc[p].pc = "la_log"
    /\ Set(p, [Finish(p, "ok") EXCEPT
            !.uid = proc[p].uid, !.count = proc[p].count,
            !.removed = proc[p].removed, !.swept = proc[p].swept,
            !.logged = Append(proc[p].logged,
                              [action |-> "logout_all",
                               sessionsDeleted |-> proc[p].count])])
    /\ UNCHANGED <<now, users, sessions, nextId, cache, issued, deleted, env, budget>>

(***************************************************************************)
(* SessionService.cleanupExpiredSessions: one DELETE statement, run by a   *)
(* scheduler outside request handling.                                     *)
(***************************************************************************)
\* history: a deleteAllUserSessions between its SELECT and its DELETE has
\* lost one of the rows it read
Sweeps(p) ==
    /\ proc[p].pc = "da_db"
    /\ \E s \in proc[p].todo \cap DOMAIN sessions : sessions[s].expiresAt < now

cleanupExpiredSessions ==
    /\ sessions' = [s \in {x \in DOMAIN sessions : ~(sessions[x].expiresAt < now)}
                      |-> sessions[s]]
    /\ proc' = [p \in Procs |-> IF Sweeps(p) THEN [proc[p] EXCEPT !.swept = TRUE]
                                ELSE proc[p]]
    /\ UNCHANGED <<now, users, nextId, cache, issued, deleted, env, budget>>

Next ==
    \/ Tick
    \/ cleanupExpiredSessions
    \/ \E p \in Procs :
        \/ Return(p)
        \/ \E u \in Users : StartLogin(p, u)
        \/ CreateSessionCheckLimit(p)
        \/ CreateSessionInsert(p)
        \/ CreateSessionCache(p)
        \/ UpdateSessionTokensDb(p)
        \/ UpdateSessionTokensCache(p)
        \/ GetSessionCache(p)
        \/ GetSessionDb(p)
        \/ GetSessionFill(p)
        \/ DeleteSessionDb(p)
        \/ DeleteSessionCache(p)
        \/ \E route \in Routes, tok \in issued : StartRequest(p, route, tok)
        \/ AuthenticateCheck(p)
        \/ \E tok \in issued : StartOptional(p, tok)
        \/ OptionalAuthCheck(p)
        \/ \E tok \in issued : StartRefresh(p, tok)
        \/ RefreshCheck(p)
        \/ RefreshUser(p)
        \/ LogoutFind(p)
        \/ LogoutRevoke(p)
        \/ LogoutDone(p)
        \/ LogoutAllList(p)
        \/ LogoutAllNext(p)
        \/ DeleteAllSelect(p)
        \/ DeleteAllDb(p)
        \/ DeleteAllCache(p)
        \/ LogoutAllLog(p)

\* concurrent requests
Spec == Init /\ [][Next]_vars

\* requests served one after another
InitSeq ==
    /\ Start
    /\ active = {"p1"}
    /\ horizon = MaxTime
    /\ budget = MaxRequests
    /\ skew = FALSE
    /\ faulty = FALSE
    /\ accessExpiry = ACCESS_EXPIRY
    /\ refreshExpiry = SESSION_LIFETIME
    /\ limit = 1
    /\ window = 1

SpecSeq == InitSeq /\ [][Next]_vars

\* concurrent requests, and a clock that advances while they are in flight
InitRace ==
    /\ Start
    /\ active = Procs
    /\ horizon = ConcMaxTime
    /\ budget = RaceRequests
    /\ skew = TRUE
    /\ faulty = FALSE
    /\ accessExpiry = ACCESS_EXPIRY
    /\ refreshExpiry = SESSION_LIFETIME
    /\ limit = 1
    /\ window = 1

SpecRace == InitRace /\ [][Next]_vars

\* requests served one after another, in a deployment with long-lived tokens
InitLong ==
    /\ Start
    /\ active = {"p1"}
    /\ horizon = MaxTime
    /\ budget = MaxRequests
    /\ skew = FALSE
    /\ faulty = FALSE
    /\ accessExpiry = LONG_ACCESS_EXPIRY
    /\ refreshExpiry = LONG_REFRESH_EXPIRY
    /\ limit = 1
    /\ window = 1

SpecLong == InitLong /\ [][Next]_vars

\* Redis becomes unreachable, or reachable again
RedisFlip ==
    /\ faulty
    /\ redisUp' = ~redisUp
    /\ UNCHANGED <<now, sessionvars, active, horizon, skew, accessExpiry, refreshExpiry,
                   faulty, rlvars>>

NextFault == Next \/ RedisFlip

\* one request at a time, in front of a session cache that may fail
InitFault ==
    /\ Start
    /\ active = {"p1"}
    /\ horizon = FaultMaxTime
    /\ budget = FaultRequests
    /\ skew = FALSE
    /\ faulty = TRUE
    /\ accessExpiry = ACCESS_EXPIRY
    /\ refreshExpiry = SESSION_LIFETIME
    /\ limit = 1
    /\ window = 1

SpecFault == InitFault /\ [][NextFault]_vars

\* handleOAuthCallback calls on an empty users table
NextLogin ==
    \/ Tick
    \/ \E p \in Procs :
        \/ Return(p)
        \/ \E u \in Users : StartLogin(p, u)
        \/ RegisterRole(p)
        \/ RegisterInsert(p)
        \/ CreateSessionCheckLimit(p)
        \/ CreateSessionInsert(p)
        \/ CreateSessionInsertFails(p)
        \/ CreateSessionCache(p)
        \/ UpdateSessionTokensDb(p)
        \/ GetSessionCache(p)
        \/ UpdateSessionTokensCache(p)

InitLogin ==
    /\ StartWith(<<>>)
    /\ active = Procs
    /\ horizon = ConcMaxTime
    /\ budget = ConcRequests
    /\ skew = FALSE
    /\ faulty = FALSE
    /\ accessExpiry = ACCESS_EXPIRY
    /\ refreshExpiry = SESSION_LIFETIME
    /\ limit = 1
    /\ window = 1

SpecLogin == InitLogin /\ [][NextLogin]_vars

(***************************************************************************)
(* RateLimitService.checkRateLimit(identifier, limit, window).             *)
(*                                                                         *)
(* The four commands are queued on one pipeline and sent over the single   *)
(* Redis connection of the process, which serves them in order and without *)
(* a command of another pipeline in between.  exec() either resolves with  *)
(* the replies ("ok"), or resolves with error replies or null because the  *)
(* store cannot be reached ("errors"), or rejects ("throws").              *)
(***************************************************************************)
Outcomes == {"ok", "errors", "throws"}

NoResult == [allowed |-> FALSE, remaining |-> -1, resetAt |-> -1]

\* a purge that also drops the youngest unit of the window
zremrangebyscore_early(scores, windowStart) ==
    LET Kept(x) == x > windowStart + 1 IN SelectSeq(scores, Kept)

\* ZREMRANGEBYSCORE key -inf windowStart: the scores above windowStart stay
zremrangebyscore(scores, windowStart) ==
    LET Kept(x) == x > windowStart IN SelectSeq(scores, Kept)

\* the sorted set of the key, empty once the key has expired
SortedSet(id) == IF now < keyExpire[id] THEN markers[id] ELSE <<>>

\* a pipeline whose commands reach Redis between those of the calls in flight:
\* ZCARD runs before the ZADD of those calls
PipelineInterleaved(p, id, outcome) ==
    /\ p \in active
    /\ rl[p].pc = "idle"
    /\ Len(calls) < MaxCalls
    /\ LET kept == zremrangebyscore(SortedSet(id), now - window)
           unseen == {q \in Procs : /\ rl[q].pc = "sent" /\ rl[q].id = id
                                    /\ rl[q].outcome = "ok" /\ rl[q].at > now - window}
           seen == Len(kept) - Cardinality(unseen)
       IN
       /\ IF outcome = "ok"
          THEN /\ markers' = [markers EXCEPT ![id] = Append(kept, now)]
               /\ keyExpire' = [keyExpire EXCEPT ![id] = now + window]
          ELSE UNCHANGED <<markers, keyExpire>>
       /\ rl' = [rl EXCEPT ![p] = [pc |-> "sent", id |-> id, at |-> now,
                                   outcome |-> outcome,
                                   count |-> IF outcome = "ok" THEN seen ELSE 0,
                                   idx |-> Len(calls) + 1]]
       /\ calls' = Append(calls, [id |-> id, at |-> now, outcome |-> outcome,
                                  count |-> IF outcome = "ok" THEN seen ELSE 0,
                                  returned |-> FALSE, result |-> NoResult])
    /\ UNCHANGED <<now, sessionvars, active, horizon, skew, accessExpiry, refreshExpiry,
                   faulty, redisUp,
                   limit, window>>

\* lines 27-46: now, windowStart, and the pipeline as Redis serves it
PipelineCommands(p, id, outcome) ==
    /\ p \in active
    /\ rl[p].pc = "idle"
    /\ Len(calls) < MaxCalls
    /\ LET kept == zremrangebyscore(SortedSet(id), now - window) IN
       /\ IF outcome = "ok"
          THEN /\ markers' = [markers EXCEPT ![id] = Append(kept, now)]
               /\ keyExpire' = [keyExpire EXCEPT ![id] = now + window]
          ELSE UNCHANGED <<markers, keyExpire>>
       /\ rl' = [rl EXCEPT ![p] = [pc |-> "sent", id |-> id, at |-> now,
                                   outcome |-> outcome,
                                   count |-> IF outcome = "ok" THEN Len(kept) ELSE 0,
                                   idx |-> Len(calls) + 1]]
       /\ calls' = Append(calls, [id |-> id, at |-> now, outcome |-> outcome,
                                  count |-> IF outcome = "ok" THEN Len(kept) ELSE 0,
                                  returned |-> FALSE, result |-> NoResult])

\* checkRateLimit called on its own
Pipeline(p, id, outcome) ==
    /\ PipelineCommands(p, id, outcome)
    /\ UNCHANGED <<now, sessionvars, active, horizon, skew, accessExpiry, refreshExpiry,
                   faulty, redisUp,
                   limit, window>>

\* a result that forgets the slot the call itself takes
Result_NoOwnSlot(call) ==
    IF call.outcome = "throws"
    THEN [allowed |-> TRUE, remaining |-> limit, resetAt |-> now + window]
    ELSE LET count == call.count IN
         [allowed |-> count < limit,
          remaining |-> IF limit - count > 0 THEN limit - count ELSE 0,
          resetAt |-> call.at + window]

\* lines 48-63 and the catch block, lines 64-72
Result(call) ==
    IF call.outcome = "throws"
    THEN [allowed |-> TRUE, remaining |-> limit, resetAt |-> now + window]
    ELSE LET count == call.count IN   \* (results?.[1]?.[1] as number) || 0
         [allowed |-> count < limit,
          remaining |-> IF limit - count - 1 > 0 THEN limit - count - 1 ELSE 0,
          resetAt |-> call.at + window]

CheckRateLimitResult(p) ==
    /\ rl[p].pc = "sent"
    /\ calls' = [calls EXCEPT ![rl[p].idx].returned = TRUE,
                              ![rl[p].idx].result = Result(rl[p])]
    /\ rl' = [rl EXCEPT ![p] = RateIdle]

CheckRateLimitReturn(p) ==
    /\ CheckRateLimitResult(p)
    /\ UNCHANGED <<now, sessionvars, active, horizon, skew, accessExpiry, refreshExpiry,
                   faulty, redisUp,
                   markers, keyExpire, limit, window>>

\* RateLimitService.enforceRateLimit
enforceRateLimit(result) == IF result.allowed THEN "returns" ELSE "RateLimitError"

\* rateLimitByIP / rateLimitByUser: the handler runs, or the request ends in 429
rateLimitMiddleware(result) == IF result.allowed THEN "next" ELSE "RateLimitError"

\* the headers a limiter puts on the response, and how the request goes on
RateHeaders == {"X-RateLimit-Limit", "X-RateLimit-Remaining", "X-RateLimit-Reset"}

\* rateLimitByIP / rateLimitByUser; the RateLimitError becomes the 429 response
\* RATE_LIMIT_EXCEEDED, built on the same context and so with its headers
rateLimitResponse(result) ==
    [status |-> IF result.allowed THEN "next" ELSE "429 RATE_LIMIT_EXCEEDED",
     headers |-> RateHeaders \cup (IF result.allowed THEN {} ELSE {"Retry-After"})]

\* the inline limiter of POST /stores
storeCreateLimit(result) ==
    [status |-> IF result.allowed THEN "next" ELSE "429 RATE_LIMIT_EXCEEDED",
     headers |-> RateHeaders \cup (IF result.allowed THEN {} ELSE {"Retry-After"})]

\* the inline limiter of PATCH /stores/:id
storeUpdateLimit(result) ==
    [status |-> IF result.allowed THEN "next" ELSE "429 RATE_LIMIT_EXCEEDED",
     headers |-> RateHeaders]

\* the clock also runs while checkRateLimit calls are in flight
NextRate ==
    \/ Tick
    \/ \E p \in Procs :
        \/ \E id \in Identifiers, outcome \in Outcomes : Pipeline(p, id, outcome)
        \/ CheckRateLimitReturn(p)

InitRate ==
    /\ Start
    /\ active = Procs
    /\ horizon = RateMaxTime
    /\ budget = 0
    /\ skew = TRUE
    /\ faulty = FALSE
    /\ accessExpiry = ACCESS_EXPIRY
    /\ refreshExpiry = SESSION_LIFETIME
    /\ limit \in 1..MaxLimit
    /\ window = WINDOW_MS

SpecRate == InitRate /\ [][NextRate]_vars

(***************************************************************************)
(* GET /auth/sessions: authenticate, rateLimitByUser(), then the handler.  *)
(* proc[p].stages is the history of the stages the request went through.   *)
(***************************************************************************)
\* authenticate, first half: the bearer token is verified
RouteStart(p, tok) ==
    /\ p \in active
    /\ proc[p].pc = "idle"
    /\ budget > 0
    /\ budget' = budget - 1
    /\ IF verifyAccessToken(tok)
       THEN Set(p, [Idle EXCEPT !.op = "sessions", !.pc = "gs_cache", !.tok = tok,
                                !.sid = tok.sessionId, !.ret = "route_check",
                                !.stages = <<"verify">>])
       ELSE Set(p, [Idle EXCEPT !.op = "sessions", !.pc = "done", !.tok = tok,
                                !.out = "AuthenticationError",
                                !.stages = <<"verify">>])
    /\ UNCHANGED <<now, users, sessions, nextId, cache, issued, deleted, env>>

\* authenticate, second half: the session from getSession is checked,
\* c.set('userId'), next()
RouteAuthenticate(p) ==
    /\ proc[p].pc = "route_check"
    /\ LET seen == Append(proc[p].stages, "session") IN
       IF proc[p].sess = {}
       THEN Set(p, [Finish(p, "AuthenticationError") EXCEPT !.stages = seen])
       ELSE \E session \in proc[p].sess :
            IF session.expiresAt < now
            THEN Set(p, [proc[p] EXCEPT !.target = session.id, !.pc = "ds_db",
                                        !.ret = "auth_expired", !.stages = seen])
            ELSE IF session.accessToken # proc[p].tok
            THEN Set(p, [Finish(p, "AuthenticationError") EXCEPT !.stages = seen])
            ELSE Set(p, [proc[p] EXCEPT !.uid = proc[p].tok.userId, !.sess = {},
                                        !.pc = "rl_call", !.stages = seen])
    /\ UNCHANGED <<now, users, sessions, nextId, cache, issued, deleted, env, budget>>

\* rateLimitByUser: identifier `user:${userId}`
UserKey(u) == "user:" \o u

\* rateLimitByUser: checkRateLimit is called
RouteRateLimit(p) ==
    /\ proc[p].pc = "rl_call"
    /\ \E outcome \in Outcomes : PipelineCommands(p, UserKey(proc[p].uid), outcome)
    /\ Set(p, [proc[p] EXCEPT !.pc = "rl_wait",
                              !.stages = Append(proc[p].stages, "limit")])
    /\ UNCHANGED <<now, users, sessions, nextId, cache, issued, deleted, budget,
                   active, horizon, skew, accessExpiry, refreshExpiry,
                   faulty, redisUp, limit, window>>

\* rateLimitByUser: RateLimitError, or next() and the handler, which lists
\* the user's sessions
RouteRateLimitReturn(p) ==
    /\ proc[p].pc = "rl_wait"
    /\ CheckRateLimitResult(p)
    /\ IF rateLimitMiddleware(Result(rl[p])) = "next"
       THEN Set(p, [Finish(p, "ok") EXCEPT
                       !.uid = proc[p].uid,
                       !.todo = getUserSessions(proc[p].uid),
                       !.headers = rateLimitResponse(Result(rl[p])).headers,
                       !.stages = Append(proc[p].stages, "handler")])
       ELSE Set(p, [Finish(p, "RateLimitError") EXCEPT
                       !.uid = proc[p].uid,
                       !.headers = rateLimitResponse(Result(rl[p])).headers])
    /\ UNCHANGED <<now, users, sessions, nextId, cache, issued, deleted, budget,
                   active, horizon, skew, accessExpiry, refreshExpiry,
                   faulty, redisUp, markers,
                   keyExpire, limit, window>>

NextRoute ==
    \/ Tick
    \/ \E p \in Procs :
        \/ Return(p)
        \/ StartLogin(p, "u1")
        \/ CreateSessionCheckLimit(p)
        \/ CreateSessionInsert(p)
        \/ CreateSessionCache(p)
        \/ UpdateSessionTokensDb(p)
        \/ UpdateSessionTokensCache(p)
        \/ GetSessionCache(p)
        \/ GetSessionDb(p)
        \/ GetSessionFill(p)
        \/ DeleteSessionDb(p)
        \/ DeleteSessionCache(p)
        \/ \E tok \in issued : RouteStart(p, tok)
        \/ RouteAuthenticate(p)
        \/ RouteRateLimit(p)
        \/ RouteRateLimitReturn(p)

\* one client, requests one at a time; JWT_ACCESS_EXPIRY at its default or
\* longer than the session lifetime
InitRoute ==
    /\ Start
    /\ active = {"p1"}
    /\ horizon = MaxTime
    /\ budget = MaxRequests
    /\ skew = FALSE
    /\ faulty = FALSE
    /\ accessExpiry \in {ACCESS_EXPIRY, LONG_REFRESH_EXPIRY}
    /\ refreshExpiry = SESSION_LIFETIME
    /\ limit \in 1..2
    /\ window = WINDOW_MS

SpecRoute == InitRoute /\ [][NextRoute]_vars

(***************************************************************************)
(* POST /stores up to its authorization: authenticate, then requireOwner.  *)
(* A user's role is a column of table users and may be changed there.      *)
(***************************************************************************)
Roles == {"owner", "staff"}

\* users.role of user u is set to r, between requests
ChangeRole(u, r) ==
    /\ Quiescent
    /\ u \in DOMAIN users
    /\ users[u] # r
    /\ users' = [users EXCEPT ![u] = r]
    /\ UNCHANGED <<now, sessions, nextId, cache, issued, deleted, proc, env, budget>>

\* authenticate, first half
StoreStart(p, tok) ==
    /\ p \in active
    /\ proc[p].pc = "idle"
    /\ budget > 0
    /\ budget' = budget - 1
    /\ IF verifyAccessToken(tok)
       THEN Set(p, [Idle EXCEPT !.op = "createStore", !.pc = "gs_cache", !.tok = tok,
                                !.sid = tok.sessionId, !.ret = "store_check"])
       ELSE Set(p, [Idle EXCEPT !.op = "createStore", !.pc = "done", !.tok = tok,
                                !.out = "AuthenticationError"])
    /\ UNCHANGED <<now, users, sessions, nextId, cache, issued, deleted, env>>

\* authenticate, second half: c.set('userId', payload.userId),
\* c.set('userRole', payload.role), next()
StoreAuthenticate(p) ==
    /\ proc[p].pc = "store_check"
    /\ IF proc[p].sess = {}
       THEN Set(p, Finish(p, "AuthenticationError"))
       ELSE \E session \in proc[p].sess :
            IF session.expiresAt < now
            THEN Set(p, [proc[p] EXCEPT !.target = session.id, !.pc = "ds_db",
                                        !.ret = "auth_expired"])
            ELSE IF session.accessToken # proc[p].tok
            THEN Set(p, Finish(p, "AuthenticationError"))
            ELSE Set(p, [proc[p] EXCEPT !.uid = proc[p].tok.userId,
                                        !.userRole = proc[p].tok.role,
                                        !.sess = {},
                                        !.pc = IF proc[p].op = "createStore"
                                               THEN "require_owner"
                                               ELSE "require_permission"])
    /\ UNCHANGED <<now, users, sessions, nextId, cache, issued, deleted, env, budget>>

\* requireOwner: c.get('userRole') must be the owner role
requireOwner(userRole) ==
    IF userRole \notin Roles \/ userRole # "owner" THEN "AuthorizationError" ELSE "next"

RequireOwner(p) ==
    /\ proc[p].pc = "require_owner"
    /\ Set(p, [Finish(p, IF requireOwner(proc[p].userRole) = "next"
                         THEN "authorized" ELSE "AuthorizationError")
                  EXCEPT !.uid = proc[p].uid, !.userRole = proc[p].userRole])
    /\ UNCHANGED <<now, users, sessions, nextId, cache, issued, deleted, env, budget>>

(***************************************************************************)
(* PATCH /stores/:id: authenticate, requirePermission(store, update), the  *)
(* route's limiter (admitting the request here), then                      *)
(* StoreService.updateStore(storeId, userId, userRole, data).              *)
(***************************************************************************)
StoreUpdateStart(p, tok) ==
    /\ p \in active
    /\ proc[p].pc = "idle"
    /\ budget > 0
    /\ budget' = budget - 1
    /\ IF verifyAccessToken(tok)
       THEN Set(p, [Idle EXCEPT !.op = "updateStore", !.pc = "gs_cache", !.tok = tok,
                                !.sid = tok.sessionId, !.ret = "store_check"])
       ELSE Set(p, [Idle EXCEPT !.op = "updateStore", !.pc = "done", !.tok = tok,
                                !.out = "AuthenticationError"])
    /\ UNCHANGED <<now, users, sessions, nextId, cache, issued, deleted, env>>

\* requirePermission: the owner role has every permission; for staff the
\* answer of checkUserPermission(userId, entity, action) decides
requirePermission(userId, userRole, hasPermission) ==
    IF userId = "" \/ userRole \notin Roles THEN "AuthorizationError"
    ELSE IF userRole = "owner" THEN "next"
    ELSE IF ~hasPermission THEN "AuthorizationError"
    ELSE "next"

\* checkUserPermission reads the user's grant of (store, update) from table
\* user_permissions: the request's input here
RequirePermission(p) ==
    /\ proc[p].pc = "require_permission"
    /\ \E granted \in BOOLEAN :
          LET hasPermission == proc[p].userRole = "staff" /\ granted IN
          IF requirePermission(proc[p].uid, proc[p].userRole, hasPermission) = "next"
          THEN Set(p, [proc[p] EXCEPT !.hasPermission = hasPermission,
                                      !.pc = "update_store"])
          ELSE Set(p, [Finish(p, "AuthorizationError") EXCEPT
                          !.uid = proc[p].uid, !.userRole = proc[p].userRole,
                          !.msg = "You don't have permission to update store"])
    /\ UNCHANGED <<now, users, sessions, nextId, cache, issued, deleted, env, budget>>

\* the users a store row can name as its owner
StoreOwners == {u \in Users : Registered[u] = "owner"}

\* updateStore's own check:
\* if (userRole !== 'owner' && store.ownerId !== userId) throw AuthorizationError
updateStoreAuthorization(userId, userRole, ownerId) ==
    IF userRole # "owner" /\ ownerId # userId THEN "AuthorizationError" ELSE "admitted"

\* updateStore up to its authorization; the store :id names is read
UpdateStore(p) ==
    /\ proc[p].pc = "update_store"
    /\ \E ownerId \in StoreOwners :
          IF updateStoreAuthorization(proc[p].uid, proc[p].userRole, ownerId) = "admitted"
          THEN Set(p, [Finish(p, "authorized") EXCEPT
                          !.uid = proc[p].uid, !.userRole = proc[p].userRole,
                          !.hasPermission = proc[p].hasPermission])
          ELSE Set(p, [Finish(p, "AuthorizationError") EXCEPT
                          !.uid = proc[p].uid, !.userRole = proc[p].userRole,
                          !.hasPermission = proc[p].hasPermission,
                          !.msg = "You can only update your own store"])
    /\ UNCHANGED <<now, users, sessions, nextId, cache, issued, deleted, env, budget>>

NextRole ==
    \/ \E u \in Users, r \in Roles : ChangeRole(u, r)
    \/ \E p \in Procs :
        \/ Return(p)
        \/ \E u \in Users : StartLogin(p, u)
        \/ CreateSessionCheckLimit(p)
        \/ CreateSessionInsert(p)
        \/ CreateSessionCache(p)
        \/ UpdateSessionTokensDb(p)
        \/ UpdateSessionTokensCache(p)
        \/ GetSessionCache(p)
        \/ \E tok \in issued : StoreStart(p, tok)
        \/ StoreAuthenticate(p)
        \/ RequireOwner(p)
        \/ \E tok \in issued : StoreUpdateStart(p, tok)
        \/ RequirePermission(p)
        \/ UpdateStore(p)

\* one request at a time, no time passes
InitRole ==
    /\ Start
    /\ active = {"p1"}
    /\ horizon = 0
    /\ budget = RaceRequests
    /\ skew = FALSE
    /\ faulty = FALSE
    /\ accessExpiry = ACCESS_EXPIRY
    /\ refreshExpiry = SESSION_LIFETIME
    /\ limit = 1
    /\ window = 1

SpecRole == InitRole /\ [][NextRole]_vars

(***************************************************************************)
(* What a call returns when it runs with no other request in between.      *)
(***************************************************************************)
\* SessionService.getSession: the cache copy, else the row
getSession(s) ==
    IF getCachedSession(s) # {} THEN getCachedSession(s)
    ELSE IF s \in DOMAIN sessions
         THEN {[id |-> s, userId |-> sessions[s].userId,
                accessToken |-> sessions[s].accessToken,
                refreshToken |-> sessions[s].refreshToken,
                expiresAt |-> sessions[s].expiresAt]}
         ELSE {}

\* an authenticate without the expiry check
authenticate_IgnoreExpiry(tok) ==
    /\ verifyAccessToken(tok)
    /\ \E session \in getSession(tok.sessionId) : session.accessToken = tok

\* authenticate lets the request pass
authenticate(tok) ==
    /\ verifyAccessToken(tok)
    /\ \E session \in getSession(tok.sessionId) :
          /\ ~(session.expiresAt < now)
          /\ session.accessToken = tok

(***************************************************************************)
(* C1.  Once deleteSession(S) has returned (logout, logout-all, eviction)  *)
(* and no request is in progress, authenticate rejects every access token  *)
(* that names S, also one whose signature and expiry still verify, and     *)
(* getSession(S) returns null.                                             *)
(***************************************************************************)
C1_DeletedSessionRejected ==
    Quiescent =>
        \A s \in deleted :
            /\ getSession(s) = {}
            /\ \A tok \in issued : tok.sessionId = s => ~authenticate(tok)

(***************************************************************************)
(* C2.  A middleware marks a request as authenticated only when the access *)
(* token verifies (signature, expiry), the session it names exists and has *)
(* not expired, and the token is the accessToken stored on that session:   *)
(* a token replaced by a refresh authenticates nothing.                    *)
(***************************************************************************)
\* the request of p has just been given userId, sessionId and userRole
Marked(p) ==
    \/ proc[p].pc = "done" /\ proc[p].out = "authenticated"
    \/ proc[p].pc \in {"lo_find", "la_list"}

TokenCurrent(tok) ==
    /\ verifyAccessToken(tok)
    /\ tok.sessionId \in DOMAIN sessions
    /\ ~(sessions[tok.sessionId].expiresAt < now)
    /\ sessions[tok.sessionId].accessToken = tok

C2_MarkedOnlyWithCurrentToken ==
    \A p \in Procs : Marked(p) => TokenCurrent(proc[p].tok)

(***************************************************************************)
(* C3.  When a createSession call for user U has returned, U has at most   *)
(* MAX_SESSIONS_PER_USER rows with expiresAt > now (calls do not overlap). *)
(***************************************************************************)
\* createSession has just returned to handleOAuthCallback
CreateSessionReturned(p) == proc[p].op = "login" /\ proc[p].pc = "ust_db"

C3_SessionCap ==
    \A p \in Procs :
        CreateSessionReturned(p) =>
            Cardinality(LiveSessions(proc[p].uid)) <= MAX_SESSIONS_PER_USER

(***************************************************************************)
(* C4.  A createSession call that finds the user's live sessions at the    *)
(* maximum deletes the user's oldest row, and only that one, and inserts   *)
(* the new row: afterwards getUserSessions(U) lists the sessions that were *)
(* live before, without the oldest, and the new one.                       *)
(***************************************************************************)
Oldest(ids) == CHOOSE s \in ids : \A o \in ids : s <= o

C4_EvictOldest ==
    \A p \in Procs :
        CreateSessionReturned(p) /\ proc[p].liveBefore >= MAX_SESSIONS_PER_USER =>
            LET kept == proc[p].before \ {Oldest(proc[p].before)} IN
            /\ Oldest(proc[p].before) \notin DOMAIN sessions
            /\ proc[p].sid \in DOMAIN sessions
            /\ getUserSessions(proc[p].uid) =
                  {s \in kept : s \in LiveSessions(proc[p].uid)} \cup {proc[p].sid}

(***************************************************************************)
(* Rate limiter: the history of calls.                                     *)
(***************************************************************************)
CallsOf(id) == {i \in 1..Len(calls) : calls[i].id = id}
Answered(i) == calls[i].outcome = "ok"
\* call i lies in the trailing interval (t - window, t]
InWindow(i, t) == t - window < calls[i].at /\ calls[i].at <= t
Admitted(i) == calls[i].returned /\ calls[i].result.allowed
\* no earlier call of the identifier in the window before call i
Fresh(id, i) == \A k \in CallsOf(id) : k < i => calls[k].at <= calls[i].at - window
\* the calls of the identifier from call j up to, not including, call i
Since(id, j, i) == {k \in CallsOf(id) : j <= k /\ k < i}

FreshWindowAdmits ==
    \A id \in Identifiers : \A i \in CallsOf(id) :
        (/\ calls[i].returned
         /\ \E j \in CallsOf(id) : /\ j <= i /\ Fresh(id, j)
                                   /\ Cardinality(Since(id, j, i)) < limit)
        => calls[i].result.allowed

\* C5 as stated: for every identifier and every trailing interval of length
\* windowMs, at most maxRequests of the calls made in it are allowed, and after
\* windowMs without a call the next maxRequests calls are all allowed.
C5_AtMostMaxPerWindow ==
    /\ \A id \in Identifiers : \A t \in 0..RateMaxTime :
           Cardinality({i \in CallsOf(id) : Admitted(i) /\ InWindow(i, t)}) <= limit
    /\ FreshWindowAdmits

\* C5, amended: of the calls the store answered, at most maxRequests made in a
\* trailing interval (t - windowMs, t] are allowed, for every identifier; and
\* after windowMs without a call the next maxRequests calls are all allowed.
C5_AtMostMaxAnsweredPerWindow ==
    /\ \A id \in Identifiers : \A t \in 0..RateMaxTime :
           Cardinality({i \in CallsOf(id) :
                           Answered(i) /\ Admitted(i) /\ InWindow(i, t)}) <= limit
    /\ FreshWindowAdmits

\* a full window with a rejected call, and later a fresh window that admits
C5_Witness ==
    \E id \in Identifiers : \E i, j \in CallsOf(id) :
        /\ i < j
        /\ Answered(i) /\ calls[i].returned /\ ~calls[i].result.allowed
        /\ Answered(j) /\ Fresh(id, j) /\ Admitted(j)

\* the earlier calls of the identifier still inside the window of call i
EarlierInWindow(i) ==
    {k \in CallsOf(calls[i].id) : k < i /\ calls[k].at > calls[i].at - window}

Max0(n) == IF n > 0 THEN n ELSE 0

\* the scores of the calls in S, in the order of the history
RECURSIVE ScoresOf(_, _)
ScoresOf(S, n) ==
    IF n = 0 THEN <<>>
    ELSE IF n \in S THEN Append(ScoresOf(S, n - 1), calls[n].at)
         ELSE ScoresOf(S, n - 1)

\* the calls whose markers the sorted set of the identifier holds, when each
\* call in S has inserted one: those not purged by the last call, until the
\* key expires
MarkersLeft(id, S) ==
    IF S = {} THEN {}
    ELSE LET last == CHOOSE i \in S : \A k \in S : k <= i IN
         IF now >= calls[last].at + window THEN {}
         ELSE {k \in S : calls[k].at > calls[last].at - window}

\* C6 as stated: every call inserts one marker, allowed or not, and returns
\* allowed = (c < maxRequests), remaining = max(0, maxRequests - c - 1),
\* resetAt = now + windowMs, c being the number of earlier calls of the
\* identifier still inside the window.
C6_ResultFromEarlierCalls ==
    /\ \A id \in Identifiers :
           SortedSet(id) = ScoresOf(MarkersLeft(id, CallsOf(id)), Len(calls))
    /\ \A i \in 1..Len(calls) : calls[i].returned =>
           LET c == Cardinality(EarlierInWindow(i)) IN
           calls[i].result = [allowed |-> c < limit,
                              remaining |-> Max0(limit - c - 1),
                              resetAt |-> calls[i].at + window]

\* C6, amended: every call the store answers inserts one marker, allowed or
\* not, and returns allowed = (c < maxRequests), remaining =
\* max(0, maxRequests - c - 1), resetAt = now + windowMs, c being the number
\* of earlier answered calls of the identifier still inside the window.
C6_ResultFromEarlierAnswered ==
    /\ \A id \in Identifiers :
           SortedSet(id) = ScoresOf(MarkersLeft(id, {i \in CallsOf(id) : Answered(i)}),
                                    Len(calls))
    /\ \A i \in 1..Len(calls) : (calls[i].returned /\ Answered(i)) =>
           LET c == Cardinality({k \in EarlierInWindow(i) : Answered(k)}) IN
           calls[i].result = [allowed |-> c < limit,
                              remaining |-> Max0(limit - c - 1),
                              resetAt |-> calls[i].at + window]

\* four immediate calls with maxRequests = 3: true, true, true, false and
\* remaining 2, 1, 0, 0
C6_Witness ==
    /\ limit = 3
    /\ Len(calls) = 4
    /\ \A i \in 1..4 : /\ calls[i].id = "ip:1.2.3.4" /\ calls[i].at = calls[1].at
                       /\ Answered(i) /\ calls[i].returned
    /\ [i \in 1..4 |-> calls[i].result.allowed] = <<TRUE, TRUE, TRUE, FALSE>>
    /\ [i \in 1..4 |-> calls[i].result.remaining] = <<2, 1, 0, 0>>
    /\ Len(SortedSet("ip:1.2.3.4")) = 4

\* two answered calls of one identifier in flight together, p's served first
Concurrent(p, q) ==
    /\ rl[p].pc = "sent" /\ rl[q].pc = "sent"
    /\ rl[p].id = rl[q].id
    /\ rl[p].outcome = "ok" /\ rl[q].outcome = "ok"
    /\ rl[p].idx < rl[q].idx

AnsweredAdmittedBound ==
    \A id \in Identifiers : \A t \in 0..RateMaxTime :
        Cardinality({i \in CallsOf(id) :
                        /\ Answered(i) /\ InWindow(i, t)
                        /\ calls[i].count < limit}) <= limit

C8_FailOpenFullLimit ==
    \A i \in 1..Len(calls) : (calls[i].returned /\ ~Answered(i)) =>
        /\ calls[i].result.allowed
        /\ calls[i].result.remaining = limit
        /\ enforceRateLimit(calls[i].result) = "returns"
        /\ rateLimitMiddleware(calls[i].result) = "next"

(***************************************************************************)
(* Cache and table under concurrent requests.                              *)
(***************************************************************************)
Completed == \A p \in Procs : proc[p].pc \in {"idle", "done"}

Mirrors(s) ==
    /\ s \in DOMAIN sessions
    /\ cache[s].userId = sessions[s].userId
    /\ cache[s].accessToken = sessions[s].accessToken
    /\ cache[s].refreshToken = sessions[s].refreshToken
    /\ cache[s].expiresAt = sessions[s].expiresAt

\* C9: once all calls have completed, every session cache entry mirrors an
\* existing row (userId, accessToken, refreshToken, expiresAt), and no cache
\* entry remains for a session id absent from the table.
C9_CacheMirrorsStore ==
    Completed => \A s \in DOMAIN cache : Mirrors(s)

\* two refreshToken calls for one session that ran concurrently and succeeded
DoubleRefresh(p, q) ==
    /\ p # q
    /\ proc[p].op = "refresh" /\ proc[p].pc = "done" /\ proc[p].out = "ok"
    /\ proc[q].op = "refresh" /\ proc[q].pc = "done" /\ proc[q].out = "ok"
    /\ proc[p].sid = proc[q].sid
    /\ proc[p].conc \/ proc[q].conc
    /\ proc[p].newA # proc[q].newA

\* C10: after two concurrent refreshToken calls for one session, the row
\* holds the token pair of the call that wrote last, and authenticate accepts
\* that call's access token and rejects the other call's.
C10_LastWriterWins ==
    \A p, q \in Procs : DoubleRefresh(p, q) =>
        \E w \in {p, q} : \E l \in {p, q} \ {w} :
            /\ proc[w].sid \in DOMAIN sessions
            /\ sessions[proc[w].sid].accessToken = proc[w].newA
            /\ sessions[proc[w].sid].refreshToken = proc[w].newR
            /\ authenticate(proc[w].newA)
            /\ ~authenticate(proc[l].newA)

(***************************************************************************)
(* refreshToken: outcomes and effects.                                     *)
(***************************************************************************)
\* process p has finished a refreshToken call whose token verified
Refreshed(p) ==
    /\ proc[p].op = "refresh" /\ proc[p].pc = "done"
    /\ proc[p].msg # "Invalid refresh token"

NoTokensIssued(p) == proc[p].newA = NoToken /\ proc[p].newR = NoToken

\* the tables are as they were when the request arrived, but for the expired
\* rows the scheduler's cleanup has swept meanwhile
TablesAsBefore(p) ==
    /\ cache = proc[p].pre.cache
    /\ DOMAIN sessions \subseteq DOMAIN proc[p].pre.sessions
    /\ \A s \in DOMAIN proc[p].pre.sessions :
          IF s \in DOMAIN sessions THEN sessions[s] = proc[p].pre.sessions[s]
          ELSE proc[p].pre.sessions[s].expiresAt < now

\* C11: refreshToken with a verified refresh token whose session has
\* expiresAt in the past fails with 'Session expired', issues no tokens and
\* removes the session from table and cache; with a session that does not
\* exist it fails with 'Session not found' and changes nothing.
C11_RefreshExpiredOrMissing ==
    \A p \in Procs : Refreshed(p) =>
        /\ (\E session \in proc[p].seen : session.expiresAt < now) =>
              /\ proc[p].out = "AuthenticationError"
              /\ proc[p].msg = "Session expired"
              /\ NoTokensIssued(p)
              /\ proc[p].sid \notin DOMAIN sessions
              /\ proc[p].sid \notin DOMAIN cache
        /\ proc[p].seen = {} =>
              /\ proc[p].out = "AuthenticationError"
              /\ proc[p].msg = "Session not found"
              /\ NoTokensIssued(p)
              /\ TablesAsBefore(p)

\* a refresh of an expired session has been refused and the session is gone
C11_Witness ==
    \E p \in Procs :
        /\ Refreshed(p)
        /\ proc[p].msg = "Session expired"
        /\ \E session \in proc[p].seen : session.expiresAt < now
        /\ proc[p].sid \in DOMAIN proc[p].pre.sessions
        /\ proc[p].sid \notin DOMAIN sessions

\* C12: a successful refreshToken changes only accessToken, refreshToken,
\* expiresAt and updatedAt of the session named in the refresh token: the
\* session keeps id, userId and createdAt, no session is created or deleted,
\* every other session is unchanged, and the returned pair is the stored one.
C12_RefreshInPlace ==
    \A p \in Procs : (Refreshed(p) /\ proc[p].out = "ok") =>
        LET s == proc[p].sid
            old == proc[p].pre.sessions
        IN
        /\ s \in DOMAIN old /\ s \in DOMAIN sessions
        /\ sessions[s] = [old[s] EXCEPT !.accessToken = proc[p].newA,
                                        !.refreshToken = proc[p].newR,
                                        !.expiresAt = now + SESSION_LIFETIME,
                                        !.updatedAt = now]
        /\ DOMAIN sessions \subseteq DOMAIN old
        /\ \A o \in DOMAIN old \ {s} :
              IF o \in DOMAIN sessions THEN sessions[o] = old[o]
              ELSE old[o].expiresAt < now   \* swept by the scheduler's cleanup

\* a refresh has succeeded next to another session, and the row's tokens and
\* expiry have changed
C12_Witness ==
    \E p \in Procs :
        /\ Refreshed(p) /\ proc[p].out = "ok"
        /\ proc[p].sid \in DOMAIN sessions
        /\ sessions[proc[p].sid].accessToken # proc[p].pre.sessions[proc[p].sid].accessToken
        /\ sessions[proc[p].sid].expiresAt # proc[p].pre.sessions[proc[p].sid].expiresAt
        /\ \E o \in DOMAIN sessions : o # proc[p].sid

\* C13: refreshToken does not compare the presented refresh token with the
\* stored one: whenever the token verifies and its session is live, the call
\* succeeds and returns a new valid pair, also for a token rotated out by an
\* earlier refresh.
C13_RotatedTokenStillRefreshes ==
    \A p \in Procs :
        (/\ Refreshed(p)
         /\ proc[p].seen # {}
         /\ \A session \in proc[p].seen : ~(session.expiresAt < now)) =>
            /\ proc[p].out = "ok"
            /\ verifyAccessToken(proc[p].newA)
            /\ verifyRefreshToken(proc[p].newR)
            /\ authenticate(proc[p].newA)

\* a refresh token replaced by an earlier refresh has been accepted
C13_Witness ==
    \E p \in Procs :
        /\ Refreshed(p) /\ proc[p].out = "ok"
        /\ proc[p].sid \in DOMAIN proc[p].pre.sessions
        /\ LET stored == proc[p].pre.sessions[proc[p].sid].refreshToken IN
           /\ stored.kind = "refresh"
           /\ stored # proc[p].tok
           /\ proc[p].tok.iat < stored.iat

(***************************************************************************)
(* Registration.                                                           *)
(***************************************************************************)
Owners == {u \in DOMAIN users : users[u] = "owner"}

\* C14: across any interleaving of handleOAuthCallback calls, the first user
\* created is the owner and every later user is staff: once a user exists
\* there is exactly one owner.
C14_SingleOwner ==
    DOMAIN users # {} => Cardinality(Owners) = 1

(***************************************************************************)
(* The tokens handleOAuthCallback returns.                                 *)
(***************************************************************************)
LoginReturned(p) ==
    proc[p].op = "login" /\ proc[p].pc = "done" /\ proc[p].out = "ok"

\* the login holds the two JWTs it signed and has not written them back yet
TokensSigned(p) == proc[p].op = "login" /\ proc[p].pc = "ust_db"

\* the session named in the returned pair stores the pair, authenticate
\* accepts the access token
PairStored(p) ==
    /\ proc[p].newA.sessionId = proc[p].sid
    /\ proc[p].newR.sessionId = proc[p].sid
    /\ proc[p].sid \in DOMAIN sessions
    /\ sessions[proc[p].sid].accessToken = proc[p].newA
    /\ sessions[proc[p].sid].refreshToken = proc[p].newR
    /\ authenticate(proc[p].newA)

\* the step in which handleOAuthCallback returns
LoginReturns(p) == proc[p].pc # "done" /\ LoginReturned(p)'

\* C15 as stated: at the moment handleOAuthCallback returns (accessToken,
\* refreshToken), the session whose id is embedded in them exists and stores
\* exactly those two strings, so authenticate accepts the access token.
C15_ReturnedPairStored ==
    [][\A p \in Procs : LoginReturns(p) => PairStored(p)']_vars

\* C15, amended: at the moment handleOAuthCallback returns, unless another
\* request deleted the session during the call, the session stores exactly
\* the returned pair and authenticate accepts the access token; the JWTs are
\* signed only after the session row was inserted, for that row's id, while
\* the row (if still there) holds the provider's tokens.
C15_ReturnedPairStoredUnlessDeleted ==
    [][\A p \in Procs :
        /\ (LoginReturns(p) /\ proc[p].sid \in DOMAIN sessions') => PairStored(p)'
        /\ (TokensSigned(p)' /\ ~TokensSigned(p)) =>
              /\ proc[p].sid \in 1..(nextId - 1)
              /\ proc'[p].newA.sessionId = proc[p].sid
              /\ proc'[p].newR.sessionId = proc[p].sid
              /\ proc[p].sid \in DOMAIN sessions =>
                    sessions[proc[p].sid].accessToken.kind = "google_access"]_vars

\* a login has returned its pair while an older session of the user exists
C15_Witness ==
    \E p \in Procs :
        /\ LoginReturned(p)
        /\ proc[p].newA.kind = "access"
        /\ proc[p].sid \in DOMAIN sessions
        /\ \E s \in DOMAIN sessions :
              s # proc[p].sid /\ sessions[s].userId = sessions[proc[p].sid].userId

(***************************************************************************)
(* Logout from all devices.                                                *)
(***************************************************************************)
\* logoutAll(U) has returned and no other request is running
LogoutAllCompleted(p) ==
    /\ proc[p].op = "logoutAll" /\ proc[p].pc = "done" /\ proc[p].out = "ok"
    /\ \A q \in Procs \ {p} : proc[q].pc = "idle"
    /\ ~proc[p].swept

\* C16: after logoutAll(U) completes with no other operation on U's sessions
\* in progress, no session of U, live or expired, remains in the store or
\* the cache, sessionsDeleted equals the number of U's rows removed, and
\* exactly one logout_all activity entry carrying that count is recorded.
C16_LogoutAllRemovesEverySession ==
    \A p \in Procs :
        LogoutAllCompleted(p) =>
            /\ \A s \in DOMAIN sessions : sessions[s].userId # proc[p].uid
            /\ \A s \in DOMAIN cache : cache[s].userId # proc[p].uid
            /\ proc[p].count = proc[p].removed
            /\ proc[p].logged = <<[action |-> "logout_all",
                                   sessionsDeleted |-> proc[p].removed]>>

(***************************************************************************)
(* Revocation at the provider.                                             *)
(***************************************************************************)
\* a logout or logout-all in which a revocation failed has ended
RevocationFailed(p) ==
    proc[p].op \in {"logout", "logoutAll"} /\ proc[p].pc = "done" /\ proc[p].revFailed

\* C17: a failed revocation at the provider never prevents local logout:
\* logout still deletes the session and returns normally, logoutAll still
\* deletes all of the user's sessions.
C17_RevocationFailureTolerated ==
    \A p \in Procs :
        RevocationFailed(p) =>
            /\ proc[p].out = "ok"
            /\ proc[p].op = "logout" =>
                  /\ proc[p].sid \notin DOMAIN sessions
                  /\ proc[p].sid \notin DOMAIN cache
            /\ proc[p].op = "logoutAll" =>
                  /\ \A s \in DOMAIN sessions : sessions[s].userId # proc[p].uid
                  /\ proc[p].count = proc[p].removed \/ proc[p].swept

\* a logout-all over two sessions in which a revocation failed
C17_Witness ==
    \E p \in Procs :
        /\ RevocationFailed(p)
        /\ proc[p].op = "logoutAll"
        /\ proc[p].removed = 2

\* a single logout whose revocation failed
C17_WitnessLogout ==
    \E p \in Procs : RevocationFailed(p) /\ proc[p].op = "logout"

(***************************************************************************)
(* The order of the middlewares of an authenticated route.                 *)
(***************************************************************************)
Reached(p, stage) == \E i \in 1..Len(proc[p].stages) : proc[p].stages[i] = stage

RouteDone(p) == proc[p].op = "sessions" /\ proc[p].pc = "done"

\* C18: on a rate-limited route that requires a bearer token the admission
\* decision is taken before the token is verified and the session is looked
\* up: a request rejected by the limiter never reached token verification,
\* and every request, authenticated or not, consumed rate-limit quota.
C18_LimiterBeforeAuthentication ==
    \A p \in Procs :
        /\ (proc[p].op = "sessions" /\ Reached(p, "verify")) => proc[p].stages[1] = "limit"
        /\ (RouteDone(p) /\ proc[p].out = "RateLimitError") => ~Reached(p, "verify")
        /\ RouteDone(p) => Reached(p, "limit")

(***************************************************************************)
(* Expired sessions on the read paths.                                     *)
(***************************************************************************)
Expired(s) == s \in DOMAIN sessions /\ sessions[s].expiresAt < now

\* C19 as stated: no read path treats an expired session as live: getSession
\* and getSessionByAccessToken return null for it, getUserSessions omits it,
\* authenticate rejects it.
C19_ExpiredNeverRead ==
    \A s \in DOMAIN sessions :
        Expired(s) =>
            /\ getSession(s) = {}
            /\ getSessionByAccessToken(sessions[s].accessToken) = {}
            /\ s \notin getUserSessions(sessions[s].userId)
            /\ ~authenticate(sessions[s].accessToken)

\* C19, amended: getUserSessions omits an expired session and authenticate
\* rejects every token that names it, also one that still verifies; a
\* request that got past authenticate names a session that has not expired.
\* getSession and getSessionByAccessToken do not look at expiresAt: they
\* return the expired session as long as its row exists.
C19_ExpiredRejectedByCallers ==
    /\ \A s \in DOMAIN sessions :
          Expired(s) =>
             /\ s \notin getUserSessions(sessions[s].userId)
             /\ \A tok \in issued : tok.sessionId = s => ~authenticate(tok)
             /\ getSession(s) # {}
             /\ s \in getSessionByAccessToken(sessions[s].accessToken)
    /\ \A p \in Procs :
          (proc[p].op = "sessions" /\ Reached(p, "limit")) => ~Expired(proc[p].sid)

\* an expired session whose access token still verifies
C19_Witness ==
    \E s \in DOMAIN sessions :
        /\ Expired(s)
        /\ verifyAccessToken(sessions[s].accessToken)
        /\ sessions[s].accessToken \in issued

(***************************************************************************)
(* The sweep of expired sessions.                                          *)
(***************************************************************************)
\* result.length of the DELETE ... RETURNING: the rows the statement matches
cleanupResult == Cardinality({s \in DOMAIN sessions : sessions[s].expiresAt < now})

ExpiredInCache == {s \in DOMAIN cache : cache[s].expiresAt < now}

\* C20: cleanupExpiredSessions removes every expired session from both the
\* store and the cache, leaves the sessions whose expiry lies in the future
\* unchanged, and returns the number of sessions removed.
C20_CleanupRemovesExpired ==
    [][cleanupExpiredSessions =>
          /\ \A s \in DOMAIN sessions' : ~(sessions'[s].expiresAt < now)
          /\ ExpiredInCache' = {}
          /\ \A s \in DOMAIN sessions :
                ~(sessions[s].expiresAt < now) =>
                    s \in DOMAIN sessions' /\ sessions'[s] = sessions[s]
          /\ cleanupResult = Cardinality(DOMAIN sessions \ DOMAIN sessions')]_vars

(***************************************************************************)
(* A session cache that fails.                                             *)
(***************************************************************************)
\* the callers' positions right after getSession has returned
AfterGetSession ==
    {"auth_check", "opt_check", "rf_check", "lo_revoke", "la_revoke", "ust_cache",
     "route_check"}

Ended(p, op) == proc[p].op = op /\ proc[p].pc = "done"

\* C21: a failing cache never fails a session operation.  Whether or not a
\* cache command failed, createSession leaves the row it was to insert (a
\* login returns the pair the row stores), updateSessionTokens leaves the
\* pair on the row it names, deleteSession leaves no row (a logout that
\* found its session returns normally), no session operation ends in an
\* error of the cache, and getSession returns null only when the store has
\* no row.
C21_CacheFailureTolerated ==
    \A p \in Procs :
        /\ proc[p].out # "Error"
        /\ Ended(p, "login") =>
              /\ proc[p].out = "ok"
              /\ proc[p].sid \in DOMAIN sessions
              /\ sessions[proc[p].sid].accessToken = proc[p].newA
              /\ sessions[proc[p].sid].refreshToken = proc[p].newR
        /\ (Ended(p, "refresh") /\ proc[p].out = "ok"
                                /\ proc[p].sid \in DOMAIN sessions) =>
              /\ sessions[proc[p].sid].accessToken = proc[p].newA
              /\ sessions[proc[p].sid].refreshToken = proc[p].newR
        /\ (Ended(p, "logout") /\ proc[p].out = "ok") =>
              proc[p].sid \notin DOMAIN sessions
        /\ (proc[p].pc \in AfterGetSession /\ proc[p].sess = {}) =>
              proc[p].sid \notin DOMAIN sessions

\* a login has returned although its cache writes failed
C21_Witness ==
    \E p \in Procs :
        /\ Ended(p, "login") /\ proc[p].cacheFailed
        /\ proc[p].sid \in DOMAIN sessions
        /\ proc[p].sid \notin DOMAIN cache

(***************************************************************************)
(* Authentication against the store alone.                                 *)
(***************************************************************************)
\* the decision of authenticate if the session were read from the table
authenticateFromStore(tok) ==
    /\ verifyAccessToken(tok)
    /\ tok.sessionId \in DOMAIN sessions
    /\ ~(sessions[tok.sessionId].expiresAt < now)
    /\ sessions[tok.sessionId].accessToken = tok

\* C22: the cache is never authoritative for authentication: with no request
\* in progress, also after swallowed cache failures, authenticate accepts a
\* token exactly when it would accept it reading the session from the store.
C22_CacheNotAuthoritative ==
    Quiescent => \A tok \in issued : authenticate(tok) <=> authenticateFromStore(tok)

(***************************************************************************)
(* The role a request is authorized under.                                 *)
(***************************************************************************)
\* authenticate has set userRole for the request
Authorizing(p) ==
    /\ proc[p].op = "createStore"
    /\ proc[p].pc = "require_owner" \/ (proc[p].pc = "done" /\ proc[p].userRole # "")

\* C23: a change of a user's role in the store takes effect without
\* re-login: getSessionByAccessToken returns the stored role, and the role
\* under which a request is authorized (userRole set by authenticate, checked
\* by requireOwner) is the role currently stored for the user.
C23_RoleReadLive ==
    /\ \A s \in DOMAIN sessions : roleByAccessToken(s) = users[sessions[s].userId]
    /\ \A p \in Procs : Authorizing(p) => proc[p].userRole = users[proc[p].uid]

(***************************************************************************)
(* Rate-limit headers.                                                     *)
(***************************************************************************)
Rejects(response) == response.status = "429 RATE_LIMIT_EXCEEDED"

HeadersComplete(response) ==
    /\ RateHeaders \subseteq response.headers
    /\ Rejects(response) <=> "Retry-After" \in response.headers

ReturnedCalls == {i \in 1..Len(calls) : calls[i].returned}

\* C24: on every rate-limited route every response carries the three
\* X-RateLimit headers, and a response is the 429 RATE_LIMIT_EXCEEDED if and
\* only if it also carries Retry-After; for the middleware limiters (here on
\* GET /auth/sessions) and for the inline limiters of POST /stores and
\* PATCH /stores/:id, whatever checkRateLimit returned.
C24_RateLimitHeaders ==
    /\ \A p \in Procs :
          RouteDone(p) =>
             /\ RateHeaders \subseteq proc[p].headers
             /\ proc[p].out = "RateLimitError" <=> "Retry-After" \in proc[p].headers
    /\ \A i \in ReturnedCalls :
          /\ HeadersComplete(rateLimitResponse(calls[i].result))
          /\ HeadersComplete(storeCreateLimit(calls[i].result))
          /\ HeadersComplete(storeUpdateLimit(calls[i].result))

(***************************************************************************)
(* Signing and verifying.                                                  *)
(***************************************************************************)
\* the access tokens signed at instant t
AccessTokensOf(t) ==
    {[kind |-> "access", userId |-> u, sessionId |-> s, role |-> r, iat |-> t] :
        u \in Users, s \in SessionIds, r \in Roles}

RefreshTokensOf(t) ==
    {[kind |-> "refresh", userId |-> u, sessionId |-> s, role |-> "", iat |-> t] :
        u \in Users, s \in SessionIds}

LogoutUnknown(p) ==
    /\ proc[p].op = "logout"
    /\ proc[p].pc = "lo_find"
    /\ getSessionByAccessToken(proc[p].tok) = {}

\* C26: logout called with an access token that matches no stored session
\* raises AuthenticationError('Session not found') and changes nothing: no
\* session is deleted, no provider revocation is attempted, no activity entry
\* is written; the token still matches nothing, so a second logout with it
\* fails the same way.
C26_LogoutUnknownToken ==
    [][\A p \in Procs :
          (LogoutUnknown(p) /\ proc'[p] # proc[p]) =>
             /\ proc'[p].pc = "done"
             /\ proc'[p].out = "AuthenticationError"
             /\ proc'[p].msg = "Session not found"
             /\ proc'[p].logged = <<>>
             /\ ~proc'[p].revFailed
             /\ UNCHANGED <<sessions, cache, deleted, users>>
             /\ {s \in DOMAIN sessions' : sessions'[s].accessToken = proc'[p].tok} = {}]_vars

\* a logout has ended this way; it had passed authenticate
C26_Witness ==
    \E p \in Procs :
        /\ proc[p].op = "logout"
        /\ proc[p].pc = "done"
        /\ proc[p].msg = "Session not found"
        /\ getSessionByAccessToken(proc[p].tok) = {}

(***************************************************************************)
(* Who may update a store.                                                 *)
(***************************************************************************)
\* the PATCH /stores/:id request of p has ended
UpdateEnded(p) == proc[p].op = "updateStore" /\ proc[p].pc = "done" /\ proc[p].uid # ""

\* C27: updateStore admits the store's owner and also a staff user holding
\* the store update permission: a request by staff that passed
\* requirePermission(store, update) is not rejected by updateStore's own
\* check; a user who is neither owner nor permitted staff is rejected with
\* AuthorizationError.
C27_UpdateAdmitsPermittedStaff ==
    \A p \in Procs :
        UpdateEnded(p) =>
            /\ (proc[p].userRole = "owner" /\ proc[p].uid \in StoreOwners) =>
                  proc[p].out = "authorized"
            /\ (proc[p].userRole = "staff" /\ proc[p].hasPermission) =>
                  proc[p].out = "authorized"
            /\ (proc[p].userRole # "owner" /\ ~proc[p].hasPermission) =>
                  proc[p].out = "AuthorizationError"

(***************************************************************************)
(* The token handed to the provider for revocation.                        *)
(***************************************************************************)
\* logout and logoutAll stand before googleOAuthService.revokeToken with the
\* session getSession returned
Revoking(p) == proc[p].pc \in {"lo_revoke", "la_revoke"} /\ proc[p].sess # {}

\* the argument of the call: fullSession.accessToken
revokeArgument(p) == {session.accessToken : session \in proc[p].sess}

\* C28: the token logout and logoutAll pass to revokeToken is the provider
\* access token obtained in the login code exchange for that session, never
\* one of the locally issued JWTs.
C28_RevokesProviderToken ==
    \A p \in Procs :
        Revoking(p) =>
            \A tok \in revokeArgument(p) :
                /\ tok.kind = "google_access"
                /\ tok \notin issued

(***************************************************************************)
(* The login entry of the activity log.                                    *)
(***************************************************************************)
\* the callback of p has written its login entry
LoginLogged(p) ==
    /\ proc[p].op = "login"
    /\ \E i \in 1..Len(proc[p].logged) : proc[p].logged[i].action = "login"

\* the callback of p has thrown
LoginFailed(p) == proc[p].op = "login" /\ proc[p].pc = "done" /\ proc[p].out # "ok"

\* C29: in handleOAuthCallback the login/registration activity entry is
\* recorded after the session has been created and the tokens written back,
\* so a callback that fails at session creation, token issuance or
\* write-back leaves no login activity entry.
C29_LoginLoggedLast ==
    \A p \in Procs :
        /\ LoginLogged(p) => LoginReturned(p) /\ proc[p].sid \in 1..(nextId - 1)
        /\ LoginFailed(p) => ~LoginLogged(p)

(***************************************************************************)
(* The limiter tiers and the keys they count under.                        *)
(***************************************************************************)
Tiers == {"general", "strict", "user", "upload", "bulk"}

\* rateLimitByIP: identifier = `ip:${ip}`
IpKey(ip) == "ip:" \o ip

\* rateLimitByUser: identifier = `user:${userId}`, and rateLimitByIP when the
\* context holds no userId
UserOrIpKey(ip, userId) == IF userId = "" THEN IpKey(ip) ELSE UserKey(userId)

\* the identifier a tier hands to checkRateLimit for a client: strictRateLimit
\* is rateLimitByIP with another maximum, uploadRateLimit and bulkRateLimit are
\* rateLimitByUser with other maxima
tierIdentifier(tier, ip, userId) ==
    IF tier \in {"general", "strict"} THEN IpKey(ip) ELSE UserOrIpKey(ip, userId)

\* the clients of the model: one address, signed in as u1 or not at all
ClientIp == "1.2.3.4"
ClientUsers == {"", "u1"}

\* process p sends the pipeline of a checkRateLimit call for identifier id
Calls(p, id) == rl[p].pc = "idle" /\ rl'[p].pc = "sent" /\ rl'[p].id = id

\* C30: the limiter tiers keep independent counters: a checkRateLimit call
\* made by one tier (general per-IP, strict auth per-IP, per-user, upload,
\* bulk) leaves the marker set of every other tier unchanged; requests to
\* general routes do not consume the strict auth quota of the same client,
\* and requests counted under user:<id> consume no ip:<addr> quota.
C30_TiersIndependent ==
    [][\A p \in Procs, u \in ClientUsers, tier \in Tiers :
          Calls(p, tierIdentifier(tier, ClientIp, u)) =>
             \A other \in Tiers \ {tier} :
                 markers'[tierIdentifier(other, ClientIp, u)] =
                    markers[tierIdentifier(other, ClientIp, u)]]_vars

====
